---- MODULE Spec2Model ----
(***************************************************************************)
(* Model of pctheory/pset.py: the pitch-set analysis functions fb_class,   *)
(* invert, p_ic_matrix, p_ic_roster, p_set_class, pcint_class,             *)
(* pm_similarity, subsets, transform and transpose.                        *)
(*                                                                         *)
(* Every function is pure, so the state machine is a caller: it holds one  *)
(* input pset, calls one function with arguments drawn from bounded sets,  *)
(* and records the outcome of the call (the returned value, or the         *)
(* exception the call ended in).                                           *)
(***************************************************************************)
EXTENDS Integers, Sequences, FiniteSets, TLC

VARIABLES pset, op, args, result

vars == <<pset, op, args, result>>

(* ---------------------------------------------------------------------- *)
(* Bounds of the input space                                              *)
(* ---------------------------------------------------------------------- *)
MaxVal == 3
MaxLen == 3
MaxLen2 == 2
Step == 7

\* the pitch values of the input psets: spread by Step so that differences
\* exceed both moduli (12 and 24)
Vals == { v * Step : v \in (0 - MaxVal)..MaxVal }

\* the integer arguments n, p0, offset
Ints == (0 - MaxVal)..MaxVal

(* ---------------------------------------------------------------------- *)
(* Pitch elements (module pctheory.pitch)                                 *)
(* ---------------------------------------------------------------------- *)
\* the pitch classes a pset can hold: two modular variants and the
\* unbounded one
Variants == {"PitchClass12", "PitchClass24", "Pitch12"}

\* t(value): a pitch element of variant t whose attribute p is value; the
\* value is stored as given, and two elements are equal iff they have the
\* same variant and the same value
Pitch(t, value) == [t |-> t, p |-> value]

\* the order pseg.sort() sorts pitch elements by: ascending by value
PitchLt(a, b) == a.p < b.p

\* the well-formed psets of one variant with at most k elements
PSetsOf(t, k) == { S \in SUBSET { Pitch(t, v) : v \in Vals } : Cardinality(S) <= k }

PSets(k) == UNION { PSetsOf(t, k) : t \in Variants }

(* ---------------------------------------------------------------------- *)
(* Outcome of a call: a returned value or a raised exception              *)
(* ---------------------------------------------------------------------- *)
Ok(v) == [status |-> "ok", val |-> v]

Raise(e) == [status |-> e, val |-> <<>>]

Returned(r) == r.status = "ok"

(* ---------------------------------------------------------------------- *)
(* Python builtins used by pset.py                                        *)
(* ---------------------------------------------------------------------- *)
\* next(pset): next() accepts only an iterator; a set is iterable but is
\* not an iterator, so the call raises TypeError whatever the set holds
next(s) == Raise("TypeError")

\* type(iter(next(pset))): the argument is evaluated first, so the
\* exception of next(pset) ends the expression
type_iter_next(s) ==
    LET e == next(s) IN
    IF ~Returned(e) THEN e ELSE Ok(e.val.t)

abs(x) == IF x < 0 THEN 0 - x ELSE x

\* pseg = list(pset); pseg.sort(): the elements in ascending order
RECURSIVE sorted(_)
sorted(S) ==
    IF S = {} THEN <<>>
    ELSE LET m == CHOOSE a \in S : \A b \in S : ~PitchLt(b, a)
         IN <<m>> \o sorted(S \ {m})

\* intlist.sort() on a list of integers
RECURSIVE sort_ints(_)
sort_ints(s) ==
    IF Len(s) = 0 THEN <<>>
    ELSE LET i == CHOOSE k \in 1..Len(s) : \A l \in 1..Len(s) : s[k] <= s[l]
         IN <<s[i]>> \o sort_ints(SubSeq(s, 1, i - 1) \o SubSeq(s, i + 1, Len(s)))

(* ---------------------------------------------------------------------- *)
(* The functions of pset.py                                               *)
(* ---------------------------------------------------------------------- *)
\* fb_class(pset, p0); the loop appends in the set's iteration order, which
\* the sort that follows makes irrelevant
fb_class(s, p0) ==
    LET t == type_iter_next(s) IN
    IF ~Returned(t) THEN t
    ELSE LET n == IF t.val = "PitchClass12" THEN 12 ELSE 24
             pseg == sorted(s)
             intlist == sort_ints([i \in 1..Len(pseg) |-> (pseg[i].p - p0) % n])
         IN Ok(IF Len(intlist) > 0 THEN Tail(intlist) ELSE intlist)

\* invert(pset)
invert(s) ==
    LET t == type_iter_next(s) IN
    IF ~Returned(t) THEN t
    ELSE Ok({ Pitch(t.val, p.p * (0 - 1)) : p \in s })

\* p_ic_matrix with the signed difference in place of abs()
p_ic_matrix_signed(s) ==
    LET pseg == sorted(s)
        n == Cardinality(s)
    IN Ok([i \in 1..n |-> [j \in 1..n |-> pseg[i].p - pseg[j].p]])

\* p_ic_matrix(pset): the grid as a function on (row, column), 1-based
p_ic_matrix(s) ==
    LET pseg == sorted(s)
        n == Cardinality(s)
    IN Ok([i \in 1..n |-> [j \in 1..n |-> abs(pseg[i].p - pseg[j].p)]])

\* roster_count that sets the count to 1 whether or not the key is new
roster_count_reset(roster, interval) ==
    IF interval \notin DOMAIN roster THEN roster @@ (interval :> 1)
    ELSE [roster EXCEPT ![interval] = 1]

\* roster[interval] = 1 if the key is new, roster[interval] += 1 otherwise
roster_count(roster, interval) ==
    IF interval \notin DOMAIN roster THEN roster @@ (interval :> 1)
    ELSE [roster EXCEPT ![interval] = @ + 1]

\* the loops of p_ic_roster from position (i, j) on, 1-based:
\* i runs from len(pseg) down to 1 and j from i - 1 down to 1
RECURSIVE p_ic_roster_loop(_, _, _, _)
p_ic_roster_loop(pseg, roster, i, j) ==
    IF i < 1 THEN roster
    ELSE IF j < 1 THEN p_ic_roster_loop(pseg, roster, i - 1, i - 2)
    ELSE p_ic_roster_loop(pseg,
                          roster_count(roster, abs(pseg[i].p - pseg[j].p)),
                          i, j - 1)

\* p_ic_roster(pset): the roster as a function from interval to count
p_ic_roster(s) ==
    LET pseg == sorted(s)
    IN Ok(p_ic_roster_loop(pseg, <<>>, Len(pseg), Len(pseg) - 1))

\* p_set_class that reduces each difference modulo 12, as pcint_class does
p_set_class_mod(s) ==
    LET pseg == sorted(s)
    IN Ok([i \in 1..(Len(pseg) - 1) |-> (pseg[i + 1].p - pseg[i].p) % 12])

\* p_set_class(pset)
p_set_class(s) ==
    LET pseg == sorted(s)
    IN Ok([i \in 1..(Len(pseg) - 1) |-> pseg[i + 1].p - pseg[i].p])

\* pcint_class(pset)
pcint_class(s) ==
    LET pseg == sorted(s)
        t == type_iter_next(s)
    IN IF ~Returned(t) THEN t
       ELSE LET n == IF t.val = "PitchClass12" THEN 12 ELSE 24
            IN Ok([i \in 1..(Len(pseg) - 1) |-> (pseg[i + 1].p - pseg[i].p) % n])

\* ic_shared_of that counts a shared key once instead of adding the
\* smaller count
ic_shared_of_keys(roster1, roster2, ic) ==
    IF ic \in DOMAIN roster2 THEN 1 ELSE 0

\* the contribution of one key of ic_roster1 to ic_shared
ic_shared_of(roster1, roster2, ic) ==
    IF ic \in DOMAIN roster2
    THEN IF roster1[ic] < roster2[ic] THEN roster1[ic] ELSE roster2[ic]
    ELSE 0

\* the loop "for ic in ic_roster1" over the keys not yet visited
RECURSIVE ic_shared_loop(_, _, _)
ic_shared_loop(roster1, roster2, keys) ==
    IF keys = {} THEN 0
    ELSE LET ic == CHOOSE k \in keys : TRUE
         IN ic_shared_of(roster1, roster2, ic)
            + ic_shared_loop(roster1, roster2, keys \ {ic})

\* pm_similarity(pset1, pset2, ic_roster1, ic_roster2); a roster argument
\* is [given |-> FALSE] for None and [given |-> TRUE, roster |-> r] else
pm_similarity(pset1, pset2, ic_roster1, ic_roster2) ==
    LET cint == Cardinality(pset1 \cap pset2)
        r1 == IF ~ic_roster1.given THEN p_ic_roster(pset1).val ELSE ic_roster1.roster
        r2 == IF ~ic_roster2.given THEN p_ic_roster(pset2).val ELSE ic_roster2.roster
    IN Ok(<<cint, ic_shared_loop(r1, r2, DOMAIN r1)>>)

\* list < list on two lists of pitch elements: decided by the first
\* position whose elements differ, else the shorter list is the smaller
RECURSIVE list_lt(_, _)
list_lt(a, b) ==
    IF Len(a) = 0 THEN Len(b) > 0
    ELSE IF Len(b) = 0 THEN FALSE
    ELSE IF Head(a) # Head(b) THEN PitchLt(Head(a), Head(b))
    ELSE list_lt(Tail(a), Tail(b))

\* sub.sort() on a list of lists of pitch elements
RECURSIVE sort_lists(_)
sort_lists(sub) ==
    IF Len(sub) = 0 THEN <<>>
    ELSE LET i == CHOOSE k \in 1..Len(sub) :
                      /\ \A l \in 1..Len(sub) : ~list_lt(sub[l], sub[k])
                      /\ \A l \in 1..(k - 1) : list_lt(sub[k], sub[l])
         IN <<sub[i]>> \o sort_lists(SubSeq(sub, 1, i - 1) \o SubSeq(sub, i + 1, Len(sub)))

\* the inner loop of subsets from bit i on (0-based): the elements of pseg
\* whose bit is set in index, rebuilt as elements of type t
RECURSIVE subsets_row(_, _, _, _)
subsets_row(pseg, t, index, i) ==
    IF i >= Len(pseg) THEN <<>>
    ELSE (IF (index \div (2 ^ i)) % 2 = 1 THEN <<Pitch(t, pseg[i + 1].p)>> ELSE <<>>)
         \o subsets_row(pseg, t, index, i + 1)

\* subsets(pset)
subsets(s) ==
    LET total == 2 ^ Cardinality(s)
        t == type_iter_next(s)
    IN IF ~Returned(t) THEN t
       ELSE LET pseg == sorted(s)
                sub == [k \in 1..total |-> subsets_row(pseg, t.val, k - 1, 0)]
            IN Ok(sort_lists(sub))

\* transform(pset, transformation): transformation[0] is the offset and
\* transformation[1] the multiplier; the result holds Pitch12 elements
transform(s, transformation) ==
    Ok({ Pitch("Pitch12", p.p * transformation[2] + transformation[1]) : p \in s })

\* transpose(pset, n)
transpose(s, n) ==
    LET t == type_iter_next(s) IN
    IF ~Returned(t) THEN t
    ELSE Ok({ Pitch(t.val, p.p + n) : p \in s })

(* ---------------------------------------------------------------------- *)
(* The caller                                                             *)
(* ---------------------------------------------------------------------- *)
NoArgs == <<>>

\* None for a roster argument of pm_similarity
None == [given |-> FALSE]

\* a precomputed roster passed to pm_similarity
Given(r) == [given |-> TRUE, roster |-> r]

\* the roster arguments a caller passes: None, or a roster it computed
\* before for one of the two sets
RosterArgs(s1, s2) == {None, Given(p_ic_roster(s1).val), Given(p_ic_roster(s2).val)}

\* the transformations a caller passes: (offset, multiplier)
Multipliers == {0 - 1, 1, 5}

Init ==
    /\ pset \in PSets(MaxLen)
    /\ op = "none"
    /\ args = NoArgs
    /\ result = Ok(<<>>)

FbClass ==
    /\ op = "none"
    /\ \E p0 \in Ints \cup Vals :
        /\ op' = "fb_class"
        /\ args' = [p0 |-> p0]
        /\ result' = fb_class(pset, p0)
        /\ UNCHANGED pset

Invert ==
    /\ op = "none"
    /\ op' = "invert"
    /\ args' = NoArgs
    /\ result' = invert(pset)
    /\ UNCHANGED pset

IcMatrix ==
    /\ op = "none"
    /\ op' = "p_ic_matrix"
    /\ args' = NoArgs
    /\ result' = p_ic_matrix(pset)
    /\ UNCHANGED pset

IcRoster ==
    /\ op = "none"
    /\ op' = "p_ic_roster"
    /\ args' = NoArgs
    /\ result' = p_ic_roster(pset)
    /\ UNCHANGED pset

SetClass ==
    /\ op = "none"
    /\ op' = "p_set_class"
    /\ args' = NoArgs
    /\ result' = p_set_class(pset)
    /\ UNCHANGED pset

PcintClass ==
    /\ op = "none"
    /\ op' = "pcint_class"
    /\ args' = NoArgs
    /\ result' = pcint_class(pset)
    /\ UNCHANGED pset

PmSimilarity ==
    /\ op = "none"
    /\ \E pset2 \in PSets(MaxLen2) \cup {pset} :
        \E ic_roster1 \in RosterArgs(pset, pset2), ic_roster2 \in RosterArgs(pset, pset2) :
            /\ op' = "pm_similarity"
            /\ args' = [pset2 |-> pset2, ic_roster1 |-> ic_roster1, ic_roster2 |-> ic_roster2]
            /\ result' = pm_similarity(pset, pset2, ic_roster1, ic_roster2)
            /\ UNCHANGED pset

Subsets ==
    /\ op = "none"
    /\ op' = "subsets"
    /\ args' = NoArgs
    /\ result' = subsets(pset)
    /\ UNCHANGED pset

Transform ==
    /\ op = "none"
    /\ \E offset \in Ints, multiplier \in Multipliers :
        /\ op' = "transform"
        /\ args' = [transformation |-> <<offset, multiplier>>]
        /\ result' = transform(pset, <<offset, multiplier>>)
        /\ UNCHANGED pset

Transpose ==
    /\ op = "none"
    /\ \E n \in Ints :
        /\ op' = "transpose"
        /\ args' = [n |-> n]
        /\ result' = transpose(pset, n)
        /\ UNCHANGED pset

Next ==
    \/ FbClass
    \/ Invert
    \/ IcMatrix
    \/ IcRoster
    \/ SetClass
    \/ PcintClass
    \/ PmSimilarity
    \/ Subsets
    \/ Transform
    \/ Transpose

Spec == Init /\ [][Next]_vars

(* ---------------------------------------------------------------------- *)
(* Vocabulary of the properties                                           *)
(* ---------------------------------------------------------------------- *)
\* the values of a pset
values(S) == { q.p : q \in S }

\* the values of a pset in ascending order, defined without the sort
ascending(S) ==
    CHOOSE v \in [1..Cardinality(S) -> values(S)] :
        \A i, j \in 1..Cardinality(S) : i < j => v[i] < v[j]

\* the modulus of a pset's variant: 12 pitch classes per octave, or 24
modulus(S) == IF \A q \in S : q.t = "PitchClass12" THEN 12 ELSE 24

\* the number of unordered pairs of n elements
pairs(n) == (n * (n - 1)) \div 2

\* the sum of the counts of a roster over a set of its keys
RECURSIVE sum_counts(_, _)
sum_counts(roster, keys) ==
    IF keys = {} THEN 0
    ELSE LET k == CHOOSE x \in keys : TRUE
         IN roster[k] + sum_counts(roster, keys \ {k})

\* f(r) in a nested call f(g(...)): an exception of the inner call ends the
\* expression, else the outer call is made on the returned value
then_invert(r) == IF ~Returned(r) THEN r ELSE invert(r.val)

then_transpose(r, n) == IF ~Returned(r) THEN r ELSE transpose(r.val, n)

\* the ten functions of the public surface
Called == {"transpose", "invert", "transform", "p_ic_matrix", "p_ic_roster",
           "p_set_class", "pcint_class", "fb_class", "pm_similarity", "subsets"}

(* ---------------------------------------------------------------------- *)
(* Properties                                                             *)
(* ---------------------------------------------------------------------- *)
\* C1: on a non-empty pset of one variant, every one of the ten functions
\* returns a result and never ends in an error.
C1_Total ==
    (op \in Called /\ pset # {}) => Returned(result)

\* C2: subsets(A) with |A| = n returns exactly 2^n entries, pairwise
\* distinct as value sequences, among them the empty sequence and the
\* ascending sequence of A's values.
C2_Subsets ==
    (op = "subsets" /\ pset # {}) =>
        /\ Returned(result)
        /\ Len(result.val) = 2 ^ Cardinality(pset)
        /\ \A i, j \in 1..Len(result.val) :
               i # j => [k \in 1..Len(result.val[i]) |-> result.val[i][k].p]
                        # [k \in 1..Len(result.val[j]) |-> result.val[j][k].p]
        /\ \E i \in 1..Len(result.val) : Len(result.val[i]) = 0
        /\ \E i \in 1..Len(result.val) :
               [k \in 1..Len(result.val[i]) |-> result.val[i][k].p] = ascending(pset)

\* C3: transpose(transpose(A, m), n) has the same values as
\* transpose(A, m + n), for all integers m and n.
C3_TransposeCompose ==
    (op = "transpose" /\ pset # {}) =>
        \A n \in Ints :
            LET twice == then_transpose(result, n)
                once == transpose(pset, args.n + n)
            IN /\ Returned(twice)
               /\ Returned(once)
               /\ values(twice.val) = values(once.val)

\* C4: invert(invert(A)) equals A.
C4_InvertInvert ==
    (op = "invert" /\ pset # {}) =>
        LET twice == then_invert(result)
        IN Returned(twice) /\ twice.val = pset

\* C5: transform(A, (k, -1)) equals transpose(invert(A), k).
C5_TransformInvert ==
    (op = "transform" /\ pset # {} /\ args.transformation[2] = 0 - 1) =>
        LET ti == then_transpose(invert(pset), args.transformation[1])
        IN Returned(result) /\ Returned(ti) /\ result.val = ti.val

\* C6: the entry fb_class drops, the smallest of the sorted values
\* (value - p0) mod modulus, is always 0, so fb_class returns exactly the
\* non-zero intervals of the members above the reference pitch.
C6_FbClassDropsZero ==
    (op = "fb_class" /\ pset # {}) =>
        LET n == modulus(pset)
            all == { (v - args.p0) % n : v \in values(pset) }
        IN /\ Returned(result)
           /\ \A x \in all : (\A y \in all : x <= y) => x = 0
           /\ { result.val[i] : i \in 1..Len(result.val) } = all \ {0}

\* C7: the counts of ic_roster(A) sum to n(n-1)/2, and every key is the
\* absolute difference of two distinct elements of A, with a count above 0.
C7_RosterSum ==
    op = "p_ic_roster" =>
        /\ Returned(result)
        /\ sum_counts(result.val, DOMAIN result.val) = pairs(Cardinality(pset))
        /\ \A k \in DOMAIN result.val :
               /\ result.val[k] > 0
               /\ \E a, b \in pset : a # b /\ (a.p - b.p = k \/ b.p - a.p = k)

C7_Witness ==
    /\ op = "p_ic_roster"
    /\ Cardinality(pset) = 3
    /\ \E k \in DOMAIN result.val : result.val[k] = 2

\* C8: pm_similarity(A, A) without precomputed rosters returns
\* (|A|, |A|(|A|-1)/2).
C8_SelfSimilarity ==
    (/\ op = "pm_similarity"
     /\ args.pset2 = pset
     /\ ~args.ic_roster1.given
     /\ ~args.ic_roster2.given) =>
        /\ Returned(result)
        /\ result.val = <<Cardinality(pset), pairs(Cardinality(pset))>>

C8_Witness ==
    /\ op = "pm_similarity"
    /\ args.pset2 = pset
    /\ ~args.ic_roster1.given
    /\ ~args.ic_roster2.given
    /\ result.val = <<3, 3>>
    /\ \E a, b, c \in pset : a.p - b.p = b.p - c.p /\ a # b

\* C9: for non-empty A with n elements ic_matrix(A) is an n-by-n grid over
\* A's elements in ascending order with cell [i][j] = |value_i - value_j|;
\* it is symmetric, has a zero diagonal and no negative entry.
C9_Matrix ==
    (op = "p_ic_matrix" /\ pset # {}) =>
        LET n == Cardinality(pset)
            v == ascending(pset)
            mx == result.val
        IN /\ Returned(result)
           /\ DOMAIN mx = 1..n
           /\ \A i \in 1..n : DOMAIN mx[i] = 1..n
           /\ \A i, j \in 1..n :
                  /\ mx[i][j] = (IF v[i] < v[j] THEN v[j] - v[i] ELSE v[i] - v[j])
                  /\ mx[i][j] = mx[j][i]
                  /\ mx[i][j] >= 0
           /\ \A i \in 1..n : mx[i][i] = 0

C9_Witness ==
    /\ op = "p_ic_matrix"
    /\ Cardinality(pset) = 3
    /\ result.val[1][3] > 12
    /\ result.val[3][1] = result.val[1][3]

\* C10: set_class(A) is the sequence of differences between consecutive
\* elements of A in ascending order, not reduced by any modulus; its length
\* is n - 1 when n >= 1 and it is empty when n <= 1.
C10_SetClass ==
    op = "p_set_class" =>
        LET n == Cardinality(pset)
            v == ascending(pset)
        IN /\ Returned(result)
           /\ n >= 1 => Len(result.val) = n - 1
           /\ n <= 1 => result.val = <<>>
           /\ \A i \in 1..Len(result.val) : result.val[i] = v[i + 1] - v[i]

C10_Witness ==
    /\ op = "p_set_class"
    /\ Cardinality(pset) = 3
    /\ \E i \in 1..Len(result.val) : result.val[i] >= 24

====
